---- MODULE Spec2Model ----
(***************************************************************************)
(* Per-connection command dispatcher of the tuic server                    *)
(* (server/src/connection/dispatch/mod.rs): handle_uni_stream,             *)
(* handle_bi_stream (with handle_connect / connect_remote) and             *)
(* handle_received_udp_packet, for ONE Connection.                         *)
(*                                                                         *)
(* Every stream handler is a task of the multi-threaded runtime; each      *)
(* action below is one step of one task between two points where another   *)
(* task can run (an await, an atomic load/store, a call on the shared      *)
(* connection handle).                                                     *)
(***************************************************************************)
EXTENDS Integers, Sequences, FiniteSets, TLC

---------------------------------------------------------------------------
(* Bounds of the model *)

\* streams opened on the Connection under Spec; SpecMore opens one more
NumStreams == 2
\* longest candidate list the resolver returns
MaxCands == 2
\* bytes one relay direction copies at most
MaxCopy == 1
\* longest stream body that follows a Packet header
MaxBody == 2
\* the clock is observed every ClockStep milliseconds, up to MaxClock
ClockStep == 1500
MaxClock == 4500

(* Program constants *)

\* Duration::from_secs(3), in milliseconds
AuthTimeoutMs == 3000
\* u16
U16Modulus == 65536

\* the expected_token_digest argument, and the digests a client may send
expected_token_digest == 1
Digests == {1, 2}

Addrs == {"addr"}
AssocIds == {1, 2}
Bytes == {0, 1}
\* values of the len field of a decoded Packet header
PacketLens == {1}
\* packet.len() of the Vec<u8> handed to handle_received_udp_packet
PayloadLens == {U16Modulus - 1, U16Modulus}

\* stream ids, in the order the streams are opened
Streams == 1..(NumStreams + 1)
\* a stream is opened by the client (receive-only or duplex) or by the server
Kinds == {"uni", "bi", "push"}

ReasonBadCommand == "Bad command"
ReasonAuthFailed == "Authentication failed"
ReasonAuthTimeout == "Authentication timeout"
Reasons == {ReasonBadCommand, ReasonAuthFailed, ReasonAuthTimeout}

---------------------------------------------------------------------------
(* tuic_protocol::Command, as Command::read_from returns it *)

NoCmd == [tag |-> "none"]
DecodeError == [tag |-> "DecodeError"]

Command ==
         [tag : {"Authenticate"}, digest : Digests]
    \cup [tag : {"Connect"}, addr : Addrs]
    \cup [tag : {"Bind"}, addr : Addrs]
    \cup [tag : {"Packet"}, assoc_id : AssocIds, len : PacketLens, addr : Addrs]
    \cup [tag : {"Dissociate"}, assoc_id : AssocIds]

\* Result<Command>: Ok(cmd) or Err
ReadFromResults == Command \cup {DecodeError}

NoCall == [op |-> "none"]

RECURSIVE SeqsUpTo(_, _)
SeqsUpTo(S, n) ==
    IF n = 0 THEN {<<>>}
    ELSE LET shorter == SeqsUpTo(S, n - 1)
         IN  shorter \cup {Append(q, x) : q \in {r \in shorter : Len(r) = n - 1}, x \in S}

---------------------------------------------------------------------------
VARIABLES
    is_authenticated,   \* Arc<AtomicBool> shared by the handlers
    closeReason,        \* the connection: "open", or the reason of the close that took effect
    clock,              \* create_time.elapsed(), in milliseconds
    nstreams,           \* streams opened so far: tasks 1..nstreams were started
    kind,               \* kind[s]: "uni" (handle_uni_stream), "bi" (handle_bi_stream),
                        \*          "push" (handle_received_udp_packet), "none" (not opened)
    pc,                 \* pc[s]: position of the task of stream s
    cmd,                \* cmd[s]: the local `cmd`
    lastLoad,           \* lastLoad[s]: result of the task's latest is_authenticated.load
    closeCall,          \* closeCall[s]: reason the task passed to conn.close, or "none"
    assocCall,          \* assocCall[s]: the call made on assoc_map for stream s
    taskPc,             \* taskPc[s]: position of the spawned handle_packet task
    streamBody,         \* streamBody[s]: the bytes read_exact found on the stream after
                        \*                the Packet header, once handle_packet has read
    cands,              \* cands[s]: result of addr.to_socket_addrs(), see Resolutions
    idx,                \* idx[s]: position of connect_remote's for loop in cands[s]
    tcp,                \* tcp[s]: handle_connect holds the TcpStream connect_remote returned
    respWrites,         \* respWrites[s]: the Responses handle_connect called write_to for,
                        \*                each with whether the write succeeded
    sendLog,            \* sendLog[s]: what the send half of stream s carries, in order
    relay,              \* relay[s]: state of the two io::copy futures under try_join!
    pushArgs,           \* pushArgs[s]: the arguments of handle_received_udp_packet
    outStream,          \* outStream[s]: what the stream opened by conn.open_uni carries
    res                 \* res[s]: the `res` of handle_received_udp_packet

connVars == <<is_authenticated, closeReason>>
gateVars == <<lastLoad, closeCall>>
packetVars == <<assocCall, taskPc, streamBody>>
connectVars == <<cands, idx, tcp, respWrites, sendLog, relay>>
pushVars == <<pushArgs, outStream, res>>

vars == <<is_authenticated, closeReason, clock, nstreams, kind, pc, cmd,
          lastLoad, closeCall, assocCall, taskPc, streamBody,
          cands, idx, tcp, respWrites, sendLog, relay,
          pushArgs, outStream, res>>

NoRelay == [t2t |-> "idle", tun2tgt |-> "idle"]
NoArgs == [assoc_id |-> 0]
\* addr.to_socket_addrs() was not called yet
NoResolution == [result |-> "none", addrs |-> <<>>]
\* conn.open_uni() did not return a stream; otherwise data is what it carries
NoStream == [opened |-> FALSE, data |-> <<>>]

Init ==
    /\ is_authenticated = FALSE
    /\ closeReason = "open"
    /\ clock = 0
    /\ nstreams = 0
    /\ kind = [s \in Streams |-> "none"]
    /\ pc = [s \in Streams |-> "idle"]
    /\ cmd = [s \in Streams |-> NoCmd]
    /\ lastLoad = [s \in Streams |-> "none"]
    /\ closeCall = [s \in Streams |-> "none"]
    /\ assocCall = [s \in Streams |-> NoCall]
    /\ taskPc = [s \in Streams |-> "none"]
    /\ streamBody = [s \in Streams |-> <<>>]
    /\ cands = [s \in Streams |-> NoResolution]
    /\ idx = [s \in Streams |-> 0]
    /\ tcp = [s \in Streams |-> FALSE]
    /\ respWrites = [s \in Streams |-> <<>>]
    /\ sendLog = [s \in Streams |-> <<>>]
    /\ relay = [s \in Streams |-> NoRelay]
    /\ pushArgs = [s \in Streams |-> NoArgs]
    /\ outStream = [s \in Streams |-> NoStream]
    /\ res = [s \in Streams |-> "none"]

---------------------------------------------------------------------------
(* The shared connection handle and the passage of time *)

\* conn.close(VarInt::MAX, reason): the first close decides the reason the peer sees
Close(reason) ==
    closeReason' = IF closeReason = "open" THEN reason ELSE closeReason

\* time passes between two steps of the tasks
Advance ==
    /\ clock + ClockStep <= MaxClock
    /\ clock' = clock + ClockStep
    /\ UNCHANGED <<connVars, nstreams, kind, pc, cmd, gateVars, packetVars,
                   connectVars, pushVars>>

\* the transport hands the next stream the client opened, s, to its handler
Accept(s, k) ==
    /\ s = nstreams + 1
    /\ nstreams' = s
    /\ kind' = [kind EXCEPT ![s] = k]
    /\ pc' = [pc EXCEPT ![s] = "read_from"]
    /\ UNCHANGED <<connVars, clock, cmd, gateVars, packetVars, connectVars, pushVars>>

---------------------------------------------------------------------------
(* handle_uni_stream and handle_bi_stream: decode *)

\* a decode failure that lacks the `return`: the handler goes on to the gate
AfterReadFromNoReturn(k, r) ==
    IF r # DecodeError /\ k = "uni" /\ r.tag = "Authenticate" THEN "authenticate" ELSE "gate"

\* a handler that sends every decoded command, Authenticate too, through the gate
AfterReadFromGated(k, r) == IF r = DecodeError THEN "done" ELSE "gate"

\* a match whose Authenticate arm is shared by both handlers
AfterReadFromAnyKind(k, r) ==
    IF r = DecodeError THEN "done"
    ELSE IF r.tag = "Authenticate" THEN "authenticate" ELSE "gate"

\* where a handler of kind k goes with the result r of Command::read_from: out of
\* the function on Err, to the Authenticate arm of handle_uni_stream, or to the loop
AfterReadFrom(k, r) ==
    IF r = DecodeError THEN "done"
    ELSE IF k = "uni" /\ r.tag = "Authenticate" THEN "authenticate" ELSE "gate"

\* Command::read_from(&mut stream).await and the match on its result
ReadFrom(s, r) ==
    /\ pc[s] = "read_from"
    /\ kind[s] \in {"uni", "bi"}
    /\ cmd' = [cmd EXCEPT ![s] = r]
    /\ IF r = DecodeError
       THEN /\ Close(ReasonBadCommand)
            /\ closeCall' = [closeCall EXCEPT ![s] = ReasonBadCommand]
       ELSE UNCHANGED <<closeReason, closeCall>>
    /\ pc' = [pc EXCEPT ![s] = AfterReadFrom(kind[s], r)]
    /\ UNCHANGED <<is_authenticated, clock, nstreams, kind, lastLoad, packetVars,
                   connectVars, pushVars>>

\* a comparison that accepts every digest
DigestMatchesAny(digest) == digest \in Digests

\* digest == expected_token_digest
DigestMatches(digest) == digest = expected_token_digest

\* is_authenticated.store(digest == expected_token_digest): a mismatch resets the flag
AuthenticateStoreComparison(flag, digest) == DigestMatches(digest)

\* the value of the flag after the Authenticate arm: store(true) on a match only
AuthenticateStore(flag, digest) == IF DigestMatches(digest) THEN TRUE ELSE flag

\* Command::Authenticate { digest } on a receive-only stream
Authenticate(s) ==
    /\ pc[s] = "authenticate"
    /\ is_authenticated' = AuthenticateStore(is_authenticated, cmd[s].digest)
    /\ IF DigestMatches(cmd[s].digest)
       THEN UNCHANGED <<closeReason, closeCall>>
       ELSE /\ Close(ReasonAuthFailed)
            /\ closeCall' = [closeCall EXCEPT ![s] = ReasonAuthFailed]
    /\ pc' = [pc EXCEPT ![s] = "done"]
    /\ UNCHANGED <<clock, nstreams, kind, cmd, lastLoad, packetVars, connectVars, pushVars>>

---------------------------------------------------------------------------
(* The authentication gate: the loop of both handlers *)

\* a loop that polls again without testing the elapsed time
GateBranchNoTimeout(loaded) == IF loaded THEN "dispatch" ELSE "gate"

\* a gate that dispatches whatever the load returned
GateBranchOpen(loaded) == "dispatch"

\* if is_authenticated.load(..) { match cmd .. } else if create_time.elapsed() ..
GateBranch(loaded) == IF loaded THEN "dispatch" ELSE "elapsed"

\* is_authenticated.load(Ordering::Acquire), at the head of the loop
Load(s) ==
    /\ pc[s] = "gate"
    /\ lastLoad' = [lastLoad EXCEPT ![s] = IF is_authenticated THEN "true" ELSE "false"]
    /\ pc' = [pc EXCEPT ![s] = GateBranch(is_authenticated)]
    /\ UNCHANGED <<connVars, clock, nstreams, kind, cmd, closeCall, packetVars,
                   connectVars, pushVars>>

\* create_time.elapsed() >= Duration::from_secs(3)
TimedOutAtLimit(elapsed) == elapsed >= AuthTimeoutMs

\* a loop whose timeout arm is never taken
TimedOutNever(elapsed) == FALSE

\* create_time.elapsed() > Duration::from_secs(3)
TimedOut(elapsed) == elapsed > AuthTimeoutMs

\* else if create_time.elapsed() > Duration::from_secs(3) { conn.close(VarInt::MAX,
\* b"Authentication timeout"); break } else { interval.tick().await }
\* After the tick the task is back at the head of the loop; when the timer
\* resumes it relative to the other tasks is left to the scheduler.
Elapsed(s) ==
    /\ pc[s] = "elapsed"
    /\ IF TimedOut(clock)
       THEN /\ Close(ReasonAuthTimeout)
            /\ closeCall' = [closeCall EXCEPT ![s] = ReasonAuthTimeout]
            /\ pc' = [pc EXCEPT ![s] = "done"]
       ELSE /\ pc' = [pc EXCEPT ![s] = "gate"]
            /\ UNCHANGED <<closeReason, closeCall>>
    /\ UNCHANGED <<is_authenticated, clock, nstreams, kind, cmd, lastLoad, packetVars,
                   connectVars, pushVars>>

---------------------------------------------------------------------------
(* handle_uni_stream: dispatch once the flag was read true *)

\* a match that closes the Connection for Packet on a receive-only stream too
UniArmPacketClosed(tag) ==
    CASE tag = "Authenticate" -> "close"
      [] tag = "Connect"      -> "close"
      [] tag = "Bind"         -> "close"
      [] tag = "Packet"       -> "close"
      [] tag = "Dissociate"   -> "dissociate"

\* the arms of the match in handle_uni_stream's loop
UniArm(tag) ==
    CASE tag = "Authenticate" -> "close"
      [] tag = "Connect"      -> "close"
      [] tag = "Bind"         -> "close"
      [] tag = "Packet"       -> "spawn"
      [] tag = "Dissociate"   -> "dissociate"

UniDispatch(s) ==
    /\ pc[s] = "dispatch"
    /\ kind[s] = "uni"
    /\ LET arm == UniArm(cmd[s].tag) IN
       /\ IF arm = "close"
          THEN /\ Close(ReasonBadCommand)
               /\ closeCall' = [closeCall EXCEPT ![s] = ReasonBadCommand]
          ELSE UNCHANGED <<closeReason, closeCall>>
       \* tokio::spawn(handle_packet(stream, assoc_map.clone(), assoc_id, len, addr))
       /\ taskPc' = IF arm = "spawn" THEN [taskPc EXCEPT ![s] = "read_exact"] ELSE taskPc
       \* assoc_map.dissociate(assoc_id)
       /\ assocCall' = IF arm = "dissociate"
                       THEN [assocCall EXCEPT ![s] =
                               [op |-> "dissociate", assoc_id |-> cmd[s].assoc_id]]
                       ELSE assocCall
    /\ pc' = [pc EXCEPT ![s] = "done"]
    /\ UNCHANGED <<is_authenticated, clock, nstreams, kind, cmd, lastLoad, streamBody,
                   connectVars, pushVars>>

\* a read that hands on whatever arrived before the stream ended
ReadExactPartial(body, len) ==
    IF Len(body) >= len THEN [ok |-> TRUE, buf |-> SubSeq(body, 1, len)]
    ELSE [ok |-> TRUE, buf |-> body]

\* stream.read_exact(&mut buf) with buf = vec![0; len]: Ok(buf) when the stream body
\* holds len bytes, Err when the stream ends or fails before
ReadExact(body, len) ==
    IF Len(body) >= len THEN [ok |-> TRUE, buf |-> SubSeq(body, 1, len)]
    ELSE [ok |-> FALSE, buf |-> <<>>]

\* the spawned handle_packet task; body is what the client sent after the header
HandlePacket(s, body) ==
    /\ taskPc[s] = "read_exact"
    /\ LET r == ReadExact(body, cmd[s].len) IN
       assocCall' = IF r.ok
                    THEN [assocCall EXCEPT ![s] =
                            [op |-> "send", assoc_id |-> cmd[s].assoc_id,
                             payload |-> r.buf, addr |-> cmd[s].addr]]
                    ELSE assocCall
    /\ streamBody' = [streamBody EXCEPT ![s] = body]
    /\ taskPc' = [taskPc EXCEPT ![s] = "done"]
    /\ UNCHANGED <<connVars, clock, nstreams, kind, pc, cmd, gateVars, connectVars, pushVars>>

---------------------------------------------------------------------------
(* handle_bi_stream: dispatch once the flag was read true *)

\* a match that rejects Bind like the commands of the other stream kind
BiArmBindClosed(tag) ==
    CASE tag = "Authenticate" -> "close"
      [] tag = "Connect"      -> "connect"
      [] tag = "Bind"         -> "close"
      [] tag = "Packet"       -> "close"
      [] tag = "Dissociate"   -> "close"

\* a match that treats Packet on a duplex stream like Connect
BiArmPacketServed(tag) ==
    CASE tag = "Authenticate" -> "close"
      [] tag = "Connect"      -> "connect"
      [] tag = "Bind"         -> "todo"
      [] tag = "Packet"       -> "connect"
      [] tag = "Dissociate"   -> "close"

\* the arms of the match in handle_bi_stream's loop
BiArm(tag) ==
    CASE tag = "Authenticate" -> "close"
      [] tag = "Connect"      -> "connect"
      [] tag = "Bind"         -> "todo"
      [] tag = "Packet"       -> "close"
      [] tag = "Dissociate"   -> "close"

BiDispatch(s) ==
    /\ pc[s] = "dispatch"
    /\ kind[s] = "bi"
    /\ LET arm == BiArm(cmd[s].tag) IN
       /\ IF arm = "close"
          THEN /\ Close(ReasonBadCommand)
               /\ closeCall' = [closeCall EXCEPT ![s] = ReasonBadCommand]
          ELSE UNCHANGED <<closeReason, closeCall>>
       \* handle_connect(send, recv, addr) is entered; todo!() panics the task
       /\ pc' = [pc EXCEPT ![s] = CASE arm = "connect" -> "to_socket_addrs"
                                    [] arm = "todo"    -> "panicked"
                                    [] OTHER           -> "done"]
    /\ UNCHANGED <<is_authenticated, clock, nstreams, kind, cmd, lastLoad, packetVars,
                   connectVars, pushVars>>

---------------------------------------------------------------------------
(* handle_connect and connect_remote *)

\* Result of addr.to_socket_addrs(): Err, or Ok with the candidate list.  A
\* candidate is TRUE when TcpStream::connect to it succeeds.
Resolutions ==
    {[result |-> "Err", addrs |-> <<>>]}
    \cup {[result |-> "Ok", addrs |-> cs] : cs \in SeqsUpTo(BOOLEAN, MaxCands)}

\* let addrs = addr.to_socket_addrs()?;
ToSocketAddrs(s, r) ==
    /\ pc[s] = "to_socket_addrs"
    /\ IF r.result = "Err"
       THEN /\ pc' = [pc EXCEPT ![s] = "resp_false"]
            /\ UNCHANGED <<cands, idx>>
       ELSE /\ pc' = [pc EXCEPT ![s] = "tcp_connect"]
            /\ cands' = [cands EXCEPT ![s] = r]
            /\ idx' = [idx EXCEPT ![s] = 1]
    /\ UNCHANGED <<connVars, clock, nstreams, kind, cmd, gateVars, packetVars,
                   tcp, respWrites, sendLog, relay, pushVars>>

\* a loop that stops one candidate short of the end of the list
LoopTurnStopsEarly(cs, i) ==
    IF i >= Len(cs) THEN "bail"
    ELSE IF cs[i] THEN "return" ELSE "next"

\* one turn of `for addr in addrs`: "bail" when the list is exhausted, "return"
\* when TcpStream::connect(addr) is Ok, "next" otherwise
LoopTurn(cs, i) ==
    IF i > Len(cs) THEN "bail"
    ELSE IF cs[i] THEN "return" ELSE "next"

\* connect_remote's loop; its locals (addrs and the loop position) end with it
TcpConnect(s) ==
    /\ pc[s] = "tcp_connect"
    /\ LET turn == LoopTurn(cands[s].addrs, idx[s]) IN
       /\ pc' = [pc EXCEPT ![s] = CASE turn = "bail"   -> "resp_false"
                                    [] turn = "return" -> "resp_true"
                                    [] OTHER           -> "tcp_connect"]
       /\ tcp' = IF turn = "return" THEN [tcp EXCEPT ![s] = TRUE] ELSE tcp
       /\ idx' = [idx EXCEPT ![s] = IF turn = "next" THEN idx[s] + 1 ELSE 0]
       /\ cands' = IF turn = "next" THEN cands ELSE [cands EXCEPT ![s] = NoResolution]
    /\ UNCHANGED <<connVars, clock, nstreams, kind, cmd, gateVars, packetVars,
                   respWrites, sendLog, relay, pushVars>>

Response(success) == [response |-> success]
RelayedByte == [byte |-> 0]

\* a handle_connect that ignores the result of writing Response(true)
AfterResponseWriteIgnored(success, written) == IF success THEN "relay" ELSE "done"

\* a handle_connect that lacks the `return Err(err)` after Response(false)
AfterResponseNoReturn(success, written) == IF written THEN "relay" ELSE "done"

\* where handle_connect goes after resp.write_to(&mut send).await?: the relay
\* after Response(true) was written, out of the function otherwise
AfterResponse(success, written) == IF success /\ written THEN "relay" ELSE "done"

\* Response::new(..).write_to(&mut send).await?, after connect_remote returned;
\* written is whether the write succeeded
WriteResponse(s, written) ==
    /\ pc[s] \in {"resp_false", "resp_true"}
    /\ LET success == (pc[s] = "resp_true")
           next == AfterResponse(success, written) IN
       /\ respWrites' = [respWrites EXCEPT ![s] =
                            Append(@, [success |-> success, written |-> written])]
       /\ sendLog' = IF written
                     THEN [sendLog EXCEPT ![s] = Append(@, Response(success))]
                     ELSE sendLog
       /\ pc' = [pc EXCEPT ![s] = next]
       /\ relay' = IF next = "relay"
                   THEN [relay EXCEPT ![s] = [t2t |-> "running", tun2tgt |-> "running"]]
                   ELSE relay
    /\ UNCHANGED <<connVars, clock, nstreams, kind, cmd, gateVars, packetVars,
                   cands, idx, tcp, pushVars>>

Directions == {"t2t", "tun2tgt"}
Other(d) == IF d = "t2t" THEN "tun2tgt" ELSE "t2t"

\* a join that is ready as soon as either future completes, as tokio::select! is
SelectReady(r) == r.t2t \in {"eof", "err"} \/ r.tun2tgt \in {"eof", "err"}

\* tokio::try_join!(target_to_tunnel, tunnel_to_target) is ready with the first
\* Err, or when both futures are Ok
TryJoinReady(r) ==
    \/ r.t2t = "err"
    \/ r.tun2tgt = "err"
    \/ (r.t2t = "eof" /\ r.tun2tgt = "eof")

Relayed(s) == Len(SelectSeq(sendLog[s], LAMBDA x : x = RelayedByte))

\* io::copy(&mut target_recv, &mut send) moves one more byte from the remote
\* socket into the tunnel.  (What io::copy(&mut recv, &mut target_send) moves
\* goes to the remote socket, outside the dispatcher.)
CopyToTunnel(s) ==
    /\ pc[s] = "relay"
    /\ relay[s].t2t = "running"
    /\ Relayed(s) < MaxCopy
    /\ sendLog' = [sendLog EXCEPT ![s] = Append(@, RelayedByte)]
    /\ UNCHANGED <<connVars, clock, nstreams, kind, pc, cmd, gateVars, packetVars,
                   cands, idx, tcp, respWrites, relay, pushVars>>

\* io::copy of direction d completes: how = "eof" is Ok(n) at end of stream,
\* how = "err" is Err.  try_join! is polled with this result; once it is ready
\* the future of the other direction is dropped and handle_connect returns Ok(()).
CopyEnd(s, d, how) ==
    /\ pc[s] = "relay"
    /\ relay[s][d] = "running"
    /\ LET r == [relay[s] EXCEPT ![d] = how] IN
       IF TryJoinReady(r)
       THEN /\ relay' = [relay EXCEPT ![s] =
                           [r EXCEPT ![Other(d)] =
                               IF @ = "running" THEN "dropped" ELSE @]]
            /\ pc' = [pc EXCEPT ![s] = "done"]
       ELSE /\ relay' = [relay EXCEPT ![s] = r]
            /\ UNCHANGED pc
    /\ UNCHANGED <<connVars, clock, nstreams, kind, cmd, gateVars, packetVars,
                   cands, idx, tcp, respWrites, sendLog, pushVars>>

---------------------------------------------------------------------------
(* handle_received_udp_packet *)

\* a Vec<u8> of len bytes, all equal to fill
Packets == [len : PayloadLens, fill : {0}]
PushCalls == [assoc_id : AssocIds, packet : Packets, addr : Addrs]

\* packet.len() as u16
AsU16(n) == n % U16Modulus

\* Command::new_packet(assoc_id, packet.len() as u16, addr)
NewPacket(args) ==
    [tag |-> "Packet", assoc_id |-> args.assoc_id, len |-> AsU16(args.packet.len),
     addr |-> args.addr]

\* the association table hands a received datagram to the dispatcher; s will be
\* the stream the call opens
HandleReceivedUdpPacket(s, args) ==
    /\ s = nstreams + 1
    /\ nstreams' = s
    /\ kind' = [kind EXCEPT ![s] = "push"]
    /\ pushArgs' = [pushArgs EXCEPT ![s] = args]
    /\ pc' = [pc EXCEPT ![s] = "open_uni"]
    /\ UNCHANGED <<connVars, clock, cmd, gateVars, packetVars, connectVars, outStream, res>>

\* let mut stream = conn.open_uni().await?;
OpenUni(s, ok) ==
    /\ pc[s] = "open_uni"
    /\ IF ok
       THEN /\ outStream' = [outStream EXCEPT ![s] = [opened |-> TRUE, data |-> <<>>]]
            /\ pc' = [pc EXCEPT ![s] = "write_cmd"]
            /\ UNCHANGED res
       ELSE /\ res' = [res EXCEPT ![s] = "Err"]
            /\ pc' = [pc EXCEPT ![s] = "done"]
            /\ UNCHANGED outStream
    /\ UNCHANGED <<connVars, clock, nstreams, kind, cmd, gateVars, packetVars,
                   connectVars, pushArgs>>

\* let cmd = Command::new_packet(..); cmd.write_to(&mut stream).await?;
WriteCmd(s, ok) ==
    /\ pc[s] = "write_cmd"
    /\ cmd' = [cmd EXCEPT ![s] = NewPacket(pushArgs[s])]
    /\ IF ok
       THEN /\ outStream' = [outStream EXCEPT ![s].data = Append(@, NewPacket(pushArgs[s]))]
            /\ pc' = [pc EXCEPT ![s] = "write_all"]
            /\ UNCHANGED res
       ELSE /\ res' = [res EXCEPT ![s] = "Err"]
            /\ pc' = [pc EXCEPT ![s] = "done"]
            /\ UNCHANGED outStream
    /\ UNCHANGED <<connVars, clock, nstreams, kind, gateVars, packetVars,
                   connectVars, pushArgs>>

\* stream.write_all(&packet).await?;
WriteAll(s, ok) ==
    /\ pc[s] = "write_all"
    /\ IF ok
       THEN /\ outStream' = [outStream EXCEPT ![s].data = Append(@, pushArgs[s].packet)]
            /\ res' = [res EXCEPT ![s] = "Ok"]
       ELSE /\ res' = [res EXCEPT ![s] = "Err"]
            /\ UNCHANGED outStream
    /\ pc' = [pc EXCEPT ![s] = "done"]
    /\ UNCHANGED <<connVars, clock, nstreams, kind, cmd, gateVars, packetVars,
                   connectVars, pushArgs>>

---------------------------------------------------------------------------
Bodies == SeqsUpTo(Bytes, MaxBody)

\* a step of a task that is running
Step ==
    \/ Advance
    \/ \E s \in Streams, r \in ReadFromResults : ReadFrom(s, r)
    \/ \E s \in Streams : Authenticate(s)
    \/ \E s \in Streams : Load(s)
    \/ \E s \in Streams : Elapsed(s)
    \/ \E s \in Streams : UniDispatch(s)
    \/ \E s \in Streams, body \in Bodies : HandlePacket(s, body)
    \/ \E s \in Streams : BiDispatch(s)
    \/ \E s \in Streams, r \in Resolutions : ToSocketAddrs(s, r)
    \/ \E s \in Streams : TcpConnect(s)
    \/ \E s \in Streams, written \in BOOLEAN : WriteResponse(s, written)
    \/ \E s \in Streams : CopyToTunnel(s)
    \/ \E s \in Streams, d \in Directions, how \in {"eof", "err"} : CopyEnd(s, d, how)
    \/ \E s \in Streams, ok \in BOOLEAN : OpenUni(s, ok)
    \/ \E s \in Streams, ok \in BOOLEAN : WriteCmd(s, ok)
    \/ \E s \in Streams, ok \in BOOLEAN : WriteAll(s, ok)

ClientKinds == {"uni", "bi"}

Next ==
    \/ Step
    \/ \E s \in 1..NumStreams, k \in ClientKinds : Accept(s, k)
    \/ \E s \in 1..NumStreams, args \in PushCalls : HandleReceivedUdpPacket(s, args)

NextMore ==
    \/ Step
    \/ \E s \in Streams, k \in ClientKinds : Accept(s, k)
    \/ \E s \in Streams, args \in PushCalls : HandleReceivedUdpPacket(s, args)

\* NumStreams streams
Spec == Init /\ [][Next]_vars

\* NumStreams + 1 streams
SpecMore == Init /\ [][NextMore]_vars

\* the steps of the tasks of stream s that need nothing from the client: atomic
\* operations, the timer, the resolver and the TCP connect, which the runtime and
\* the operating system complete
HandlerStep(s) ==
    \/ Authenticate(s)
    \/ Load(s)
    \/ Elapsed(s)
    \/ UniDispatch(s)
    \/ BiDispatch(s)
    \/ \E r \in Resolutions : ToSocketAddrs(s, r)
    \/ TcpConnect(s)

\* the steps of the tasks of stream s that wait for I/O on a stream of the
\* Connection; on an open Connection the peer may leave them waiting for ever
TransportStep(s) ==
    \/ \E r \in ReadFromResults : ReadFrom(s, r)
    \/ \E body \in Bodies : HandlePacket(s, body)
    \/ \E written \in BOOLEAN : WriteResponse(s, written)
    \/ \E d \in Directions, how \in {"eof", "err"} : CopyEnd(s, d, how)
    \/ \E ok \in BOOLEAN : OpenUni(s, ok)
    \/ \E ok \in BOOLEAN : WriteCmd(s, ok)
    \/ \E ok \in BOOLEAN : WriteAll(s, ok)

\* Spec with the scheduling the runtime gives: time advances, a task that can run
\* is run, and once the Connection is closed every pending operation on its
\* streams completes (the transport fails it)
FairSpec ==
    /\ Spec
    /\ WF_vars(Advance)
    /\ \A s \in 1..NumStreams :
        /\ WF_vars(HandlerStep(s))
        /\ WF_vars(closeReason # "open" /\ TransportStep(s))

---------------------------------------------------------------------------
(* Properties *)

ConnectPcs == {"to_socket_addrs", "tcp_connect", "resp_false", "resp_true", "relay"}

\* stream s carries a well-formed command with this tag
Has(s, tag) == cmd[s].tag = tag

\* the handler of s has begun to service a data-plane command: the handle_packet
\* task was spawned, assoc_map was called, or handle_connect was entered
DataPlaneServiced(s) ==
    \/ taskPc[s] # "none"
    \/ assocCall[s].op # "none"
    \/ pc[s] \in ConnectPcs
    \/ respWrites[s] # <<>>
    \/ tcp[s]

\* the step is handler s taking the load at the head of its loop
Loads(s) == pc[s] = "gate" /\ pc'[s] # "gate"

\* C1: no data-plane command (Packet, Dissociate, Connect) is serviced unless the
\* handler of its stream loaded the authentication flag and read true; and once a
\* load has returned true, every later load returns true.
C1_ServicedOnlyAfterTrueLoad ==
    /\ [](\A s \in Streams : DataPlaneServiced(s) => lastLoad[s] = "true")
    /\ [][\A s \in Streams :
            (Loads(s) /\ \E t \in Streams : lastLoad[t] = "true")
                => lastLoad'[s] = "true"]_vars

\* two handlers have read the flag true, and one of them sent a packet to assoc_map
C1_Witness ==
    \E s, t \in Streams :
        /\ s # t
        /\ lastLoad[s] = "true" /\ lastLoad[t] = "true"
        /\ assocCall[s].op = "send"

\* C2: the authentication flag starts false and never goes from true back to
\* false, whatever the handlers do: also after the Connection was closed and after
\* a later Authenticate with a wrong digest.
C2_FlagMonotonic ==
    /\ is_authenticated = FALSE
    /\ [][is_authenticated => is_authenticated']_vars

\* the flag is true although a later Authenticate with a wrong digest closed the Connection
C2_Witness ==
    /\ is_authenticated
    /\ closeReason = ReasonAuthFailed
    /\ \E s \in Streams : closeCall[s] = ReasonAuthFailed /\ pc[s] = "done"

\* the step is handle_uni_stream's Authenticate arm on stream s
Authenticates(s) == pc[s] = "authenticate" /\ pc'[s] = "done"

\* a matching Authenticate was processed on stream a
AuthenticatedBy(a) ==
    /\ kind[a] = "uni" /\ Has(a, "Authenticate") /\ pc[a] = "done"
    /\ cmd[a].digest = expected_token_digest

\* C3: Authenticate on a receive-only stream with the expected digest sets the
\* flag and does not close the Connection, and a Connect handler that polls the
\* gate afterwards goes on to handle_connect; with another digest it closes the
\* Connection with "Authentication failed" and leaves the flag as it was.
C3_Authenticate ==
    /\ [][\A s \in Streams : Authenticates(s) =>
            IF cmd[s].digest = expected_token_digest
            THEN /\ is_authenticated'
                 /\ closeReason' = closeReason
                 /\ closeCall'[s] = "none"
            ELSE /\ closeCall'[s] = ReasonAuthFailed
                 /\ closeReason' = IF closeReason = "open" THEN ReasonAuthFailed
                                   ELSE closeReason
                 /\ is_authenticated' = is_authenticated]_vars
    /\ [][\A t \in Streams :
            (/\ \E a \in Streams : AuthenticatedBy(a)
             /\ kind[t] = "bi" /\ Has(t, "Connect")
             /\ pc'[t] # pc[t])
            => CASE pc[t] = "gate"     -> pc'[t] = "dispatch"
                 [] pc[t] = "dispatch" -> pc'[t] = "to_socket_addrs"
                 [] OTHER              -> TRUE]_vars

\* after a matching Authenticate, a Connect handler is in handle_connect on an open Connection
C3_Witness ==
    \E a, t \in Streams :
        /\ AuthenticatedBy(a)
        /\ kind[t] = "bi" /\ Has(t, "Connect") /\ pc[t] = "to_socket_addrs"
        /\ closeReason = "open"

\* no stream of the Connection carried an Authenticate command
NoAuthenticateSent == \A s \in Streams : ~Has(s, "Authenticate")

\* every task that was started has ended
Quiescent == \A s \in Streams : pc[s] \in {"idle", "done"} /\ taskPc[s] # "read_exact"

\* C4 as stated: once more than 3 seconds have passed and its handlers have run, a
\* Connection on which the client opened streams but sent no Authenticate is closed
\* with "Authentication timeout", and none of its data-plane commands was serviced.
C4_ClosedWithTimeout ==
    (/\ clock > AuthTimeoutMs
     /\ \E s \in Streams : kind[s] \in ClientKinds
     /\ NoAuthenticateSent
     /\ Quiescent)
    => /\ closeReason = ReasonAuthTimeout
       /\ \A s \in Streams : ~DataPlaneServiced(s)

\* the step is handler s testing the elapsed time after a load that returned false
TestsElapsed(s) == pc[s] = "elapsed" /\ pc'[s] # "elapsed"

\* C4, amended: while the flag is false no data-plane command is serviced; a
\* handler that read the flag false closes the Connection with "Authentication
\* timeout" exactly when it finds more than 3 seconds elapsed since create_time, and
\* a handler ends without having read true only in that way; when no Authenticate
\* was sent and every stream decoded, that is the reason the Connection is closed with.
C4_TimeoutClose ==
    /\ [](\A s \in Streams : DataPlaneServiced(s) => is_authenticated)
    /\ [](\A s \in Streams :
            /\ closeCall[s] = ReasonAuthTimeout =>
                 /\ clock > AuthTimeoutMs
                 /\ lastLoad[s] = "false" /\ pc[s] = "done"
                 /\ ~DataPlaneServiced(s)
            /\ (kind[s] \in ClientKinds /\ pc[s] = "done" /\ lastLoad[s] = "false")
                 => closeCall[s] = ReasonAuthTimeout)
    /\ []((/\ NoAuthenticateSent
           /\ \A s \in Streams : cmd[s].tag # "DecodeError"
           /\ closeReason # "open")
          => closeReason = ReasonAuthTimeout)
    /\ [][\A s \in Streams : TestsElapsed(s) =>
            IF clock > AuthTimeoutMs
            THEN /\ closeCall'[s] = ReasonAuthTimeout
                 /\ closeReason' # "open"
                 /\ pc'[s] = "done"
            ELSE /\ closeCall'[s] = "none"
                 /\ closeReason' = closeReason
                 /\ pc'[s] = "gate"]_vars

\* a Connect handler closed the Connection with "Authentication timeout"; no
\* Authenticate was sent and nothing was serviced
C4_Witness ==
    /\ NoAuthenticateSent
    /\ closeReason = ReasonAuthTimeout
    /\ \E s \in Streams :
        /\ kind[s] = "bi" /\ Has(s, "Connect")
        /\ closeCall[s] = ReasonAuthTimeout
        /\ ~DataPlaneServiced(s)

\* the command of stream s is not one its kind of stream serves
WrongKind(s) ==
    \/ kind[s] = "uni" /\ cmd[s].tag \in {"Connect", "Bind"}
    \/ kind[s] = "bi" /\ cmd[s].tag \in {"Authenticate", "Packet", "Dissociate"}

\* nothing was done for stream s beyond decoding and the gate
NothingServiced(s) ==
    /\ ~DataPlaneServiced(s)
    /\ cands[s] = NoResolution /\ idx[s] = 0
    /\ sendLog[s] = <<>>
    /\ relay[s] = NoRelay

\* C5: once its handler has read the flag true, a command on the wrong kind of
\* stream (Connect or Bind on a receive-only stream; Authenticate, Packet or
\* Dissociate on a duplex stream) leads to close("Bad command") and to nothing
\* else: no call on the association table, no Response, no TCP connect.
C5_WrongStreamKind ==
    \A s \in Streams :
        (lastLoad[s] = "true" /\ WrongKind(s)) =>
            /\ pc[s] \in {"dispatch", "done"}
            /\ pc[s] = "dispatch" => closeCall[s] = "none"
            /\ pc[s] = "done" => (closeCall[s] = ReasonBadCommand /\ closeReason # "open")
            /\ NothingServiced(s)

\* a Packet on a duplex stream closed the authenticated Connection with "Bad command"
C5_Witness ==
    \E s \in Streams :
        /\ kind[s] = "bi" /\ Has(s, "Packet") /\ lastLoad[s] = "true"
        /\ closeCall[s] = ReasonBadCommand
        /\ closeReason = ReasonBadCommand
        /\ is_authenticated

\* handle_connect on stream s ended without a TcpStream: resolution failed or
\* every candidate failed
ConnectFailed(s) ==
    /\ kind[s] = "bi" /\ Has(s, "Connect") /\ lastLoad[s] = "true"
    /\ pc[s] = "done"
    /\ ~tcp[s]

\* the handler of stream t, having read the flag true, did what its command asks for
ServicedNormally(t) ==
    (lastLoad[t] = "true" /\ pc[t] = "done") =>
        /\ (kind[t] = "uni" /\ Has(t, "Dissociate")) =>
              assocCall[t] = [op |-> "dissociate", assoc_id |-> cmd[t].assoc_id]
        /\ (kind[t] = "uni" /\ Has(t, "Packet")) => taskPc[t] # "none"
        /\ (kind[t] = "bi" /\ Has(t, "Connect")) => respWrites[t] # <<>>
        /\ WrongKind(t) => closeCall[t] = ReasonBadCommand

\* the step is a step of handle_connect on stream s
ConnectSteps(s) ==
    /\ pc[s] \in ConnectPcs
    /\ pc'[s] # pc[s] \/ relay'[s] # relay[s] \/ sendLog'[s] # sendLog[s] \/ idx'[s] # idx[s]

\* C6: an authenticated Connect whose target has no reachable candidate writes
\* one Response, with success = false, and nothing else to its send half, starts
\* no relay and does not close the Connection; the other streams of the Connection
\* are serviced as usual.
C6_ConnectFailure ==
    /\ [](\A s \in Streams : ConnectFailed(s) =>
            /\ Len(respWrites[s]) = 1
            /\ respWrites[s][1].success = FALSE
            /\ sendLog[s] = IF respWrites[s][1].written THEN <<Response(FALSE)>> ELSE <<>>
            /\ relay[s] = NoRelay
            /\ closeCall[s] = "none"
            /\ \A t \in Streams : ServicedNormally(t))
    /\ [][\A s \in Streams : ConnectSteps(s) =>
            /\ closeReason' = closeReason
            /\ closeCall' = closeCall
            /\ is_authenticated' = is_authenticated]_vars

\* a Connect failed and its Response(false) was written; the Connection is open
\* and a stream opened later was serviced
C6_Witness ==
    \E s, t \in Streams :
        /\ ConnectFailed(s)
        /\ sendLog[s] = <<Response(FALSE)>>
        /\ s < t
        /\ assocCall[t].op = "dissociate"
        /\ closeReason = "open"

\* the step completes one of the two copy directions of the relay of stream s
DirectionEnds(s) ==
    /\ pc[s] = "relay"
    /\ \E d \in Directions : relay[s][d] = "running" /\ relay'[s][d] \in {"eof", "err"}

C8_ReversePacket ==
    \A s \in Streams :
        (kind[s] = "push" /\ res[s] = "Ok") =>
            /\ outStream[s].opened
            /\ outStream[s].data =
                 << [tag |-> "Packet", assoc_id |-> pushArgs[s].assoc_id,
                     len |-> pushArgs[s].packet.len, addr |-> pushArgs[s].addr],
                    pushArgs[s].packet >>

\* the four fatal error kinds, as the history of stream s shows them
FatalKind(s) ==
    CASE closeCall[s] = ReasonBadCommand ->
            \/ cmd[s] = DecodeError
            \/ lastLoad[s] = "true" /\ WrongKind(s)
      [] closeCall[s] = ReasonAuthFailed ->
            /\ kind[s] = "uni" /\ Has(s, "Authenticate")
            /\ cmd[s].digest # expected_token_digest
      [] closeCall[s] = ReasonAuthTimeout ->
            /\ lastLoad[s] = "false" /\ cmd[s] \in Command
            /\ clock > AuthTimeoutMs
      [] OTHER -> FALSE

\* the step belongs to a task whose failures are local: the handle_packet task,
\* handle_connect with its relay, or handle_received_udp_packet
LocalSteps(s) ==
    \/ taskPc[s] = "read_exact" /\ taskPc'[s] # taskPc[s]
    \/ ConnectSteps(s)
    \/ kind[s] = "push" /\ pc'[s] # pc[s]

\* C9: conn.close is called only for a decode error, a mismatched Authenticate, an
\* authentication timeout or a command on the wrong kind of stream after
\* authentication, with the reasons "Bad command", "Authentication failed" and
\* "Authentication timeout"; a short read of a Packet payload, a failed step of the
\* reverse push, a failed Connect target and an I/O error of the relay neither
\* close the Connection nor change the flag.
C9_OnlyFatalKindsClose ==
    /\ [](\A s \in Streams : closeCall[s] # "none" => FatalKind(s))
    /\ [](IF closeReason = "open"
          THEN \A s \in Streams : closeCall[s] = "none"
          ELSE closeReason \in Reasons /\ \E s \in Streams : closeCall[s] = closeReason)
    /\ [][\A s \in Streams : LocalSteps(s) =>
            /\ closeReason' = closeReason
            /\ closeCall' = closeCall
            /\ is_authenticated' = is_authenticated]_vars

\* the payload of a Packet came short: nothing was sent to assoc_map, and the
\* authenticated Connection is open
C9_Witness ==
    /\ closeReason = "open"
    /\ is_authenticated
    /\ \E s \in Streams :
        /\ Has(s, "Packet") /\ taskPc[s] = "done" /\ assocCall[s].op = "none"

\* C10: when decoding the leading command fails, on either kind of stream and
\* whether or not the Connection is authenticated, the handler closes the
\* Connection with "Bad command" and returns: it never loads the flag, does not
\* change it, and dispatches nothing.
C10_DecodeFailure ==
    /\ [](\A s \in Streams : cmd[s] = DecodeError =>
            /\ pc[s] = "done"
            /\ closeCall[s] = ReasonBadCommand
            /\ closeReason # "open"
            /\ lastLoad[s] = "none"
            /\ NothingServiced(s))
    /\ [][\A s \in Streams : (cmd'[s] = DecodeError /\ cmd[s] # DecodeError) =>
            /\ is_authenticated' = is_authenticated
            /\ closeReason' = IF closeReason = "open" THEN ReasonBadCommand ELSE closeReason
            /\ \A t \in Streams \ {s} : pc'[t] = pc[t] /\ closeCall'[t] = closeCall[t]]_vars

\* a duplex stream failed to decode on an authenticated Connection and closed it
C10_Witness ==
    \E s \in Streams :
        /\ kind[s] = "bi" /\ cmd[s] = DecodeError
        /\ is_authenticated
        /\ closeReason = ReasonBadCommand

\* a task was started for stream s and has not ended
InFlight(s) == pc[s] \notin {"idle", "done", "panicked"} \/ taskPc[s] = "read_exact"

\* the handler of stream s, and the task it spawned, have ended
Terminated(s) == pc[s] \in {"done", "panicked"} /\ taskPc[s] # "read_exact"

\* the handler of stream s is in its poll loop
AtGate(s) == pc[s] \in {"gate", "elapsed"}

ReachedHandleConnect(s) == kind[s] = "bi" /\ Has(s, "Connect") /\ lastLoad[s] = "true"

\* the relay of stream s was started
RelayStarted(s) == relay[s] # NoRelay \/ pc[s] = "relay" \/ Relayed(s) > 0

\* C12: handle_connect writes exactly one Response to the send half, before any
\* relayed byte: after Response(true) was written the relay starts and every byte
\* copied from the remote socket follows it; when that write fails there is no
\* relay; on the failure path Response(false) is the only thing written.
C12_ResponseBeforeRelay ==
    /\ [](\A s \in Streams :
            /\ Len(respWrites[s]) <= 1
            /\ respWrites[s] # <<>> => ReachedHandleConnect(s)
            /\ (ReachedHandleConnect(s) /\ pc[s] = "done") => Len(respWrites[s]) = 1
            /\ respWrites[s] = <<>> => (sendLog[s] = <<>> /\ ~RelayStarted(s))
            /\ respWrites[s] # <<>> =>
                 LET w == respWrites[s][1] IN
                 /\ w.success = tcp[s]
                 /\ RelayStarted(s) = (w.success /\ w.written)
                 /\ ~w.written => sendLog[s] = <<>>
                 /\ w.written =>
                      /\ sendLog[s] # <<>>
                      /\ sendLog[s][1] = Response(w.success)
                      /\ \A i \in 2..Len(sendLog[s]) : sendLog[s][i] = RelayedByte
                 /\ ~w.success => Len(sendLog[s]) <= 1)
    /\ [][\A s \in Streams :
            Len(sendLog'[s]) > Len(sendLog[s]) =>
                IF sendLog[s] = <<>>
                THEN \E b \in BOOLEAN : sendLog'[s] = <<Response(b)>>
                ELSE /\ sendLog[s][1] = Response(TRUE)
                     /\ sendLog'[s] = Append(sendLog[s], RelayedByte)]_vars

\* a relay carried a byte from the remote socket after Response(true), and ended
C12_Witness ==
    \E s \in Streams :
        /\ respWrites[s] = <<[success |-> TRUE, written |-> TRUE]>>
        /\ sendLog[s] = <<Response(TRUE), RelayedByte>>
        /\ pc[s] = "done"

\* the step is a turn of connect_remote's loop on stream s
LoopTurns(s) == pc[s] = "tcp_connect" /\ (pc'[s] # pc[s] \/ idx'[s] # idx[s])

\* the step is connect_remote resolving the address of stream s
Resolves(s) == pc[s] = "to_socket_addrs" /\ pc'[s] # pc[s]

\* C13: connect_remote tries the candidates in resolution order, one at a time;
\* it returns the connection to the first candidate whose connect succeeds and
\* tries none after it; it fails exactly when resolution fails or when every
\* candidate was tried and failed, an empty list included.
C13_CandidatesInOrder ==
    /\ [](\A s \in Streams :
            /\ pc[s] = "tcp_connect" =>
                 /\ cands[s].result = "Ok"
                 /\ idx[s] \in 1..(Len(cands[s].addrs) + 1)
                 /\ \A j \in 1..(idx[s] - 1) : ~cands[s].addrs[j]
                 /\ ~tcp[s]
            /\ tcp[s] => pc[s] \in {"resp_true", "relay", "done"})
    /\ [][\A s \in Streams :
            /\ Resolves(s) =>
                 \/ pc'[s] = "resp_false" /\ ~tcp'[s]
                 \/ pc'[s] = "tcp_connect" /\ idx'[s] = 1 /\ cands'[s].result = "Ok"
            /\ LoopTurns(s) =>
                 LET cs == cands[s].addrs
                     i == idx[s]
                     tried == i <= Len(cs)
                 IN  /\ (pc'[s] = "resp_true") = (tried /\ cs[i])
                     /\ (pc'[s] = "resp_false") = (~tried)
                     /\ (pc'[s] = "tcp_connect") = (tried /\ ~cs[i])
                     /\ tcp'[s] = (pc'[s] = "resp_true")
                     /\ pc'[s] = "tcp_connect" => (idx'[s] = i + 1 /\ cands'[s] = cands[s])]_vars

\* the first candidate failed and connect_remote is about to try the second,
\* which will succeed
C13_Witness ==
    \E s \in Streams :
        /\ pc[s] = "tcp_connect"
        /\ cands[s].addrs = <<FALSE, TRUE>>
        /\ idx[s] = 2

\* the handler of stream s dispatched an authenticated Packet
PacketDispatched(s) ==
    kind[s] = "uni" /\ Has(s, "Packet") /\ lastLoad[s] = "true" /\ pc[s] = "done"

\* the first n elements of q
Prefix(q, n) == [i \in 1..n |-> q[i]]

\* C14: for an authenticated Packet on a receive-only stream the handler spawns
\* one task and returns without waiting for it; the task calls assoc_map.send at
\* most once, with the first len bytes of the stream body and the association id
\* and address of the command, and only when len bytes could be read; when the
\* body is shorter nothing is sent, and the Connection is not closed.
C14_PacketForward ==
    /\ [](\A s \in Streams :
            /\ taskPc[s] # "none" <=> PacketDispatched(s)
            /\ PacketDispatched(s) => closeCall[s] = "none"
            /\ taskPc[s] = "read_exact" => assocCall[s] = NoCall
            /\ (PacketDispatched(s) /\ taskPc[s] = "done") =>
                 IF Len(streamBody[s]) >= cmd[s].len
                 THEN assocCall[s] = [op |-> "send", assoc_id |-> cmd[s].assoc_id,
                                      payload |-> Prefix(streamBody[s], cmd[s].len),
                                      addr |-> cmd[s].addr]
                 ELSE assocCall[s] = NoCall)
    /\ [][\A s \in Streams :
            /\ (taskPc[s] = "none" /\ taskPc'[s] # "none") =>
                 (taskPc'[s] = "read_exact" /\ pc'[s] = "done")
            /\ (taskPc[s] = "read_exact" /\ taskPc'[s] # "read_exact") =>
                 /\ pc' = pc
                 /\ closeReason' = closeReason /\ closeCall' = closeCall
                 /\ is_authenticated' = is_authenticated
            /\ taskPc[s] = "done" => (taskPc'[s] = "done" /\ assocCall'[s] = assocCall[s])]_vars

\* the task read a body longer than len and sent its first len bytes; the
\* Connection is open
C14_Witness ==
    \E s \in Streams :
        /\ PacketDispatched(s) /\ taskPc[s] = "done"
        /\ Len(streamBody[s]) > cmd[s].len
        /\ assocCall[s].op = "send"
        /\ closeReason = "open"

\* C15: the flag is written only by handle_uni_stream processing an Authenticate
\* whose digest is the expected one.  An Authenticate decoded on a duplex stream
\* never sets it: it waits at the gate and ends in close("Bad command") when the
\* flag is read true and in close("Authentication timeout") otherwise.  Connect,
\* Bind, Packet, Dissociate and the reverse push never write the flag.
C15_SoleWriter ==
    /\ [][is_authenticated' # is_authenticated =>
            \E s \in Streams :
                /\ Authenticates(s)
                /\ kind[s] = "uni" /\ Has(s, "Authenticate")
                /\ cmd[s].digest = expected_token_digest]_vars
    /\ [][\A s \in Streams :
            (pc'[s] # pc[s] /\ ~(kind[s] = "uni" /\ Has(s, "Authenticate")))
                => is_authenticated' = is_authenticated]_vars
    /\ [](\A s \in Streams : (kind[s] = "bi" /\ Has(s, "Authenticate")) =>
            /\ pc[s] \in {"gate", "elapsed", "dispatch", "done"}
            /\ pc[s] = "dispatch" => lastLoad[s] = "true"
            /\ pc[s] = "done" =>
                 closeCall[s] = IF lastLoad[s] = "true" THEN ReasonBadCommand
                                ELSE ReasonAuthTimeout
            /\ pc[s] # "done" => closeCall[s] = "none"
            /\ NothingServiced(s))

\* an Authenticate with the expected digest came on a duplex stream and timed
\* out at the gate: the flag is still false
C15_Witness ==
    \E s \in Streams :
        /\ kind[s] = "bi" /\ Has(s, "Authenticate")
        /\ cmd[s].digest = expected_token_digest
        /\ closeCall[s] = ReasonAuthTimeout
        /\ ~is_authenticated

\* the step is the task of stream s being aborted by todo!()
Aborts(s) == pc[s] # "panicked" /\ pc'[s] = "panicked"

\* C16: a Bind on a duplex stream, once its handler has read the flag true,
\* aborts the task of that stream only: no Response is written, no TCP connect is
\* tried, conn.close is not called and the flag is unchanged, and the other
\* streams of the Connection are serviced as usual; before authentication the
\* handler waits at the gate and times out like that of any other command.
C16_BindAborts ==
    /\ [](\A s \in Streams :
            /\ pc[s] = "panicked" => (kind[s] = "bi" /\ Has(s, "Bind"))
            /\ (kind[s] = "bi" /\ Has(s, "Bind")) =>
                 /\ pc[s] \in {"gate", "elapsed", "dispatch", "panicked", "done"}
                 /\ NothingServiced(s)
                 /\ lastLoad[s] = "true" =>
                      (pc[s] \in {"dispatch", "panicked"} /\ closeCall[s] = "none")
                 /\ pc[s] = "panicked" => lastLoad[s] = "true"
                 /\ pc[s] = "done" =>
                      /\ lastLoad[s] = "false"
                      /\ closeCall[s] = ReasonAuthTimeout
                      /\ clock > AuthTimeoutMs
                 /\ pc[s] \in {"gate", "elapsed"} => closeCall[s] = "none")
    /\ []((\E s \in Streams : pc[s] = "panicked") => \A t \in Streams : ServicedNormally(t))
    /\ [][\A s \in Streams : Aborts(s) =>
            /\ closeReason' = closeReason
            /\ closeCall' = closeCall
            /\ is_authenticated' = is_authenticated
            /\ \A t \in Streams \ {s} : pc'[t] = pc[t] /\ taskPc'[t] = taskPc[t]]_vars

\* a Bind aborted its task; the Connection is open and authenticated, and a
\* stream opened after the Bind had its Dissociate carried out
C16_Witness ==
    \E s, t \in Streams :
        /\ pc[s] = "panicked"
        /\ s < t
        /\ assocCall[t].op = "dissociate"
        /\ closeReason = "open"
        /\ is_authenticated

\* the dispatch actions the handler of stream s has performed
DispatchActions(s) ==
    {a \in {"store", "close", "spawn", "dissociate", "connect", "abort"} :
        CASE a = "store"      -> AuthenticatedBy(s)
          [] a = "close"      -> closeCall[s] # "none"
          [] a = "spawn"      -> taskPc[s] # "none"
          [] a = "dissociate" -> assocCall[s].op = "dissociate"
          [] a = "connect"    -> pc[s] \in ConnectPcs \/ respWrites[s] # <<>>
          [] a = "abort"      -> pc[s] = "panicked"}

\* the handler of stream s is inside its loop
InLoop(s) == pc[s] \in {"gate", "elapsed", "dispatch"}

\* C17: a handler decodes one command from its stream, before any dispatch, and
\* performs at most one dispatch action for it (the store of the flag, a close of
\* the Connection, the spawn of one handle_packet task, one dissociate call, one
\* handle_connect, or the abort of Bind); having done so it has left its loop and
\* never decodes again; and when time advances every handler that entered the
\* gate leaves it.
C17_SingleShot ==
    /\ [](\A s \in Streams : kind[s] \in ClientKinds =>
            /\ pc[s] = "read_from" <=> cmd[s] = NoCmd
            /\ Cardinality(DispatchActions(s)) <= 1
            /\ (InLoop(s) \/ pc[s] \in {"read_from", "authenticate"}) => DispatchActions(s) = {}
            /\ pc[s] \in {"done", "panicked"} => Cardinality(DispatchActions(s)) = 1)
    /\ [][\A s \in Streams : kind[s] \in ClientKinds =>
            /\ cmd[s] # NoCmd => cmd'[s] = cmd[s]
            /\ pc[s] \in {"done", "panicked"} => pc'[s] = pc[s]
            /\ DispatchActions(s) \subseteq DispatchActions(s)']_vars
    /\ \A s \in 1..NumStreams : InLoop(s) ~> ~InLoop(s)

\* one handler stored the flag and ended; another, having polled the gate, made
\* its one dissociate call and ended
C17_Witness ==
    \E s, t \in Streams :
        /\ pc[s] = "done" /\ DispatchActions(s) = {"store"}
        /\ pc[t] = "done" /\ DispatchActions(t) = {"dissociate"}
        /\ cmd[t].tag = "Dissociate"

\* the step is handler s calling conn.close with "Authentication timeout"
ClosesWithTimeout(s) == closeCall[s] = "none" /\ closeCall'[s] = ReasonAuthTimeout

\* C18 as stated: the flag is false in the state in which a handler issues
\* close("Authentication timeout"), however its load, its elapsed-time test and
\* its close interleave with an Authenticate handler storing true.
C18_NoTimeoutOnceAuthenticated ==
    [][\A s \in Streams : ClosesWithTimeout(s) => ~is_authenticated]_vars

\* the step begins the service of the data-plane command of stream s
BeginsService(s) == ~DataPlaneServiced(s) /\ DataPlaneServiced(s)'

\* C19 as stated: once the Connection was closed, a handler that had decoded
\* Packet, Dissociate or Connect and waits at the gate does not go on to spawn
\* handle_packet, call assoc_map.dissociate or enter handle_connect, even when
\* the flag is true or becomes true later.
C19_NothingServicedAfterClose ==
    [][\A s \in Streams :
            (closeReason # "open" /\ InLoop(s)) => ~BeginsService(s)]_vars

\* stream s is a receive-only stream that carried Authenticate
UniAuthenticate(s) == kind[s] = "uni" /\ Has(s, "Authenticate")

\* C20: Authenticate on a receive-only stream does not pass the gate and can be
\* repeated: with the expected digest it leaves the flag true and the Connection
\* as it was, whether or not the flag was already true and whatever time has
\* elapsed since create_time; its handler never loads the flag, never reaches the
\* "Bad command" arm of the loop and never closes with "Authentication timeout".
C20_AuthenticateUngated ==
    /\ [](\A s \in Streams : UniAuthenticate(s) =>
            /\ pc[s] \in {"authenticate", "done"}
            /\ lastLoad[s] = "none"
            /\ closeCall[s] \in {"none", ReasonAuthFailed}
            /\ (pc[s] = "done" /\ cmd[s].digest = expected_token_digest) =>
                 (is_authenticated /\ closeCall[s] = "none"))
    /\ [][\A s \in Streams :
            (Authenticates(s) /\ cmd[s].digest = expected_token_digest) =>
                /\ is_authenticated'
                /\ closeReason' = closeReason
                /\ closeCall' = closeCall]_vars

\* two Authenticate commands with the expected digest were processed, more than
\* 3 seconds after create_time; the flag is true and the Connection is open
C20_Witness ==
    /\ \E s, t \in Streams : s # t /\ AuthenticatedBy(s) /\ AuthenticatedBy(t)
    /\ clock > AuthTimeoutMs
    /\ is_authenticated
    /\ closeReason = "open"

====
